---- MODULE Spec2Model ----
(***************************************************************************)
(* Model of rounds/tutorial.py: the Logger (print, flush, truncate,        *)
(* to_json), the Product policies (update, trade) and Trader.run.          *)
(*                                                                         *)
(* Strings are sequences of one-character strings, so that slicing,        *)
(* concatenation and JSON escaping are computed character by character.    *)
(* Mappings that the code iterates (order_depths, result) are sequences of *)
(* <<key, value>> pairs in insertion order.                                *)
(***************************************************************************)
EXTENDS Integers, Sequences, FiniteSets, TLC

VARIABLES
    pc,         \* position of the running call: idle, loop, update, decide, flushed, raised
    state,      \* the TradingState passed to the running call
    idx,        \* index of the for-loop of Trader.run over state.order_depths.keys()
    result,     \* Trader.run's local `result`, in insertion order
    position,   \* Product.position of every registered product
    logs,       \* Logger.logs
    emitted,    \* the last line written to standard output by Logger.flush
    flushArgs,  \* the arguments of the last Logger.flush call
    returned,   \* the value returned by the last call
    fault,      \* the exception that ended the last call, "" if none
    events,     \* the calls made since the running Trader.run began, oldest first
    ticks       \* number of calls started so far

vars == <<pc, state, idx, result, position, logs, emitted, flushArgs, returned,
          fault, events, ticks>>

-----------------------------------------------------------------------------
(* Bounds of the model *)

MaxTicks == 2

-----------------------------------------------------------------------------
(* Program constants *)

max_log_length == 3750
fair_price == 10000
ResinLimit == 50
KelpLimit == 50
conversions == 1

RESIN == "RAINFOREST_RESIN"
KELP == "KELP"
SQUID == "SQUID_INK"

-----------------------------------------------------------------------------
(* Strings *)

Min(a, b) == IF a <= b THEN a ELSE b
Max(a, b) == IF a >= b THEN a ELSE b

MinOf(S) == CHOOSE x \in S : \A y \in S : x <= y
MaxOf(S) == CHOOSE x \in S : \A y \in S : x >= y

NL == "\n"
QUOTE == "\""
BACKSLASH == "\\"

Digits == <<"0", "1", "2", "3", "4", "5", "6", "7", "8", "9">>

RECURSIVE NatStr(_)
NatStr(n) == IF n < 10 THEN <<Digits[n + 1]>>
             ELSE NatStr(n \div 10) \o <<Digits[(n % 10) + 1]>>

\* str(n) of a Python int
IntStr(n) == IF n < 0 THEN <<"-">> \o NatStr(-n) ELSE NatStr(n)

SymStr(sym) ==
    CASE sym = RESIN -> <<"R","A","I","N","F","O","R","E","S","T","_","R","E","S","I","N">>
      [] sym = KELP  -> <<"K","E","L","P">>
      [] sym = SQUID -> <<"S","Q","U","I","D","_","I","N","K">>

\* value[:k] of a Python string, for any integer k
Slice(value, k) ==
    IF k >= 0 THEN SubSeq(value, 1, Min(k, Len(value)))
    ELSE SubSeq(value, 1, Max(Len(value) + k, 0))

Ellipsis == <<".", ".", ".">>

TruncateOffByThree(value, max_length) ==
    IF Len(value) <= max_length THEN value
    ELSE Slice(value, max_length) \o Ellipsis

\* Logger.truncate
truncate(value, max_length) ==
    IF Len(value) <= max_length THEN value
    ELSE Slice(value, max_length - 3) \o Ellipsis

-----------------------------------------------------------------------------
(* json.dumps(..., separators=(",", ":")): lengths of the serialized text *)

\* characters json.dumps writes for one character of a string
EscLen(c) == IF c \in {NL, QUOTE, BACKSLASH} THEN 2 ELSE 1

RECURSIVE EscSum(_)
EscSum(s) == IF s = <<>> THEN 0 ELSE EscLen(Head(s)) + EscSum(Tail(s))

JsonStrLen(s) == 2 + EscSum(s)
JsonIntLen(n) == Len(IntStr(n))

RECURSIVE SumOver(_, _)
\* sum of f[x] over the finite set S
SumOver(f, S) ==
    IF S = {} THEN 0
    ELSE LET x == CHOOSE y \in S : TRUE IN f[x] + SumOver(f, S \ {x})

\* a dict of int keys and int values: {"9998":-5,"10000":-3}
JsonIntDictLen(d) ==
    LET D == DOMAIN d
        item == [p \in D |-> JsonIntLen(p) + 2 + 1 + JsonIntLen(d[p])]
    IN 2 + SumOver(item, D) + (IF D = {} THEN 0 ELSE Cardinality(D) - 1)

RECURSIVE SeqSum(_)
SeqSum(s) == IF s = <<>> THEN 0 ELSE Head(s) + SeqSum(Tail(s))

\* a list or dict whose items serialize to the lengths in `lens`
JsonListLen(lens) ==
    2 + SeqSum(lens) + (IF Len(lens) = 0 THEN 0 ELSE Len(lens) - 1)

-----------------------------------------------------------------------------
(* Logger: compression and the envelope *)

\* an Order(symbol, price, quantity)
Order(symbol, price, quantity) ==
    [symbol |-> symbol, price |-> price, quantity |-> quantity]

\* the book of an order_depths entry <<symbol, <<book>>>>; the entry of a
\* symbol that carries no OrderDepth object is <<symbol, <<>>>>
HasBook(entry) == entry[2] # <<>>
BookOf(entry) == entry[2][1]

\* state.order_depths.keys(), in iteration order
Keys(order_depths) == [i \in 1..Len(order_depths) |-> order_depths[i][1]]

\* len(to_json(compress_order_depths(order_depths)))
OrderDepthsLen(order_depths) ==
    JsonListLen([i \in 1..Len(order_depths) |->
        JsonStrLen(SymStr(order_depths[i][1])) + 1
        + JsonListLen(<<JsonIntDictLen(BookOf(order_depths[i]).buy_orders),
                        JsonIntDictLen(BookOf(order_depths[i]).sell_orders)>>)])

\* len(to_json(state.position))
PositionLen(pos) ==
    LET D == DOMAIN pos
        item == [s \in D |-> JsonStrLen(SymStr(s)) + 1 + JsonIntLen(pos[s])]
    IN 2 + SumOver(item, D) + (IF D = {} THEN 0 ELSE Cardinality(D) - 1)

\* Logger.compress_orders: the orders of result.values(), flattened
RECURSIVE compress_orders(_)
compress_orders(orders) ==
    IF orders = <<>> THEN <<>>
    ELSE Head(orders)[2] \o compress_orders(Tail(orders))

\* len(to_json(compress_orders(orders)))
OrdersLen(orders) ==
    LET flat == compress_orders(orders)
    IN JsonListLen([i \in 1..Len(flat) |->
          JsonListLen(<<JsonStrLen(SymStr(flat[i].symbol)),
                        JsonIntLen(flat[i].price),
                        JsonIntLen(flat[i].quantity)>>)])

\* len(to_json(compress_state(st, trader_data))); st.bulk is the serialized
\* length of the compressed listings, own trades, market trades and
\* observations together
CompressStateLen(st, trader_data) ==
    2 + 7 + JsonIntLen(st.timestamp) + JsonStrLen(trader_data) + st.bulk
    + OrderDepthsLen(st.order_depths) + PositionLen(st.position)

\* len(to_json([compress_state(st, td_in), compress_orders(orders), conv, td_out, text]))
EnvelopeLen(st, td_in, orders, conv, td_out, text) ==
    JsonListLen(<<CompressStateLen(st, td_in), OrdersLen(orders),
                  JsonIntLen(conv), JsonStrLen(td_out), JsonStrLen(text)>>)

\* Logger.flush: base_length
BaseLength(st, orders, conv) ==
    EnvelopeLen(st, <<>>, orders, conv, <<>>, <<>>)

\* Logger.flush: max_item_length
MaxItemLength(st, orders, conv) ==
    (max_log_length - BaseLength(st, orders, conv)) \div 3

\* Logger.flush: the line handed to print()
FlushLine(st, orders, conv, trader_data, text) ==
    LET share == MaxItemLength(st, orders, conv)
        tdIn  == truncate(st.traderData, share)
        tdOut == truncate(trader_data, share)
        dbg   == truncate(text, share)
    IN [traderDataIn  |-> tdIn,
        orders        |-> compress_orders(orders),
        conversions   |-> conv,
        traderDataOut |-> tdOut,
        logs          |-> dbg,
        share         |-> share,
        length        |-> EnvelopeLen(st, tdIn, orders, conv, tdOut, dbg)]

\* Logger.print with the default sep and end, of one object
LoggerPrint(buf, text) == buf \o text \o <<NL>>

-----------------------------------------------------------------------------
(* Product policies *)

\* Trader.products
Products == {RESIN, KELP}

IsRegisteredResinOnly(product) == product = RESIN

\* Trader.run: product in self.products
IsRegistered(product) == product \in Products

\* Product.limit, set by the constructors
Limit(id) == IF id = RESIN THEN ResinLimit ELSE KelpLimit

UpdateKeepsOld(old, id, st) ==
    IF id \notin DOMAIN st.position THEN old ELSE st.position[id]

\* Product.update: the new value of self.position
update(old, id, st) ==
    IF id \notin DOMAIN st.position THEN 0 ELSE st.position[id]

BuyQuantityUnclipped(best_ask_volume, limit, pos) == best_ask_volume

\* RainforestResin.trade: quantity of the buy order
BuyQuantity(best_ask_volume, limit, pos) == Min(best_ask_volume, limit - pos)

\* RainforestResin.trade: quantity of the sell order, before negation
SellQuantity(best_bid_volume, limit, pos) == Min(best_bid_volume, limit + pos)

BuyMsg(quantity, id, price) ==
    <<"B","u","y","i","n","g"," ">> \o IntStr(quantity) \o <<" ">> \o SymStr(id)
    \o <<" ","@"," ">> \o IntStr(price)

SellMsg(quantity, id, price) ==
    <<"S","e","l","l","i","n","g"," ">> \o IntStr(quantity) \o <<" ">> \o SymStr(id)
    \o <<" ","@"," ">> \o IntStr(price)

ProcessingMsg(product) ==
    <<"P","r","o","c","e","s","s","i","n","g"," ","p","r","o","d","u","c","t",":"," ">>
    \o SymStr(product)

BuyCrossesAtOrBelow(best_ask) == best_ask <= fair_price

\* RainforestResin.trade: the test on the best ask
BuyCrosses(best_ask) == best_ask < fair_price

\* RainforestResin.trade: the test on the best bid
SellCrosses(best_bid) == best_bid > fair_price

\* RainforestResin.trade, the block on sell_orders: orders appended and text logged
ResinBuySide(id, book, limit, pos) ==
    IF DOMAIN book.sell_orders # {}
    THEN LET best_ask == MinOf(DOMAIN book.sell_orders)
             best_ask_volume == (-1) * book.sell_orders[best_ask]
             quantity == BuyQuantity(best_ask_volume, limit, pos)
         IN IF BuyCrosses(best_ask)
            THEN [orders |-> <<Order(id, best_ask, quantity)>>,
                  text   |-> LoggerPrint(<<>>, BuyMsg(quantity, id, best_ask))]
            ELSE [orders |-> <<>>, text |-> <<>>]
    ELSE [orders |-> <<>>, text |-> <<>>]

\* RainforestResin.trade, the block on buy_orders
ResinSellSide(id, book, limit, pos) ==
    IF DOMAIN book.buy_orders # {}
    THEN LET best_bid == MaxOf(DOMAIN book.buy_orders)
             best_bid_volume == book.buy_orders[best_bid]
             quantity == SellQuantity(best_bid_volume, limit, pos)
         IN IF SellCrosses(best_bid)
            THEN [orders |-> <<Order(id, best_bid, -quantity)>>,
                  text   |-> LoggerPrint(<<>>, SellMsg(quantity, id, best_bid))]
            ELSE [orders |-> <<>>, text |-> <<>>]
    ELSE [orders |-> <<>>, text |-> <<>>]

\* the order_depths entry of a symbol
EntryOf(st, id) ==
    LET i == CHOOSE j \in 1..Len(st.order_depths) : st.order_depths[j][1] = id
    IN st.order_depths[i]

HasKey(st, id) == \E j \in 1..Len(st.order_depths) : st.order_depths[j][1] = id

\* the exception the body of trade() raises after update(), "" if none:
\* RainforestResin.trade subscripts state.order_depths with its id and reads
\* the attributes of the value; Kelp.trade reads neither
TradeFault(id, st) ==
    IF id # RESIN THEN ""
    ELSE IF ~HasKey(st, id) THEN "KeyError"
    ELSE IF ~HasBook(EntryOf(st, id)) THEN "AttributeError"
    ELSE ""

\* the body of trade() after update(), when it raises nothing
TradeBody(id, st, pos) ==
    IF id = RESIN
    THEN LET book == BookOf(EntryOf(st, id))
             b == ResinBuySide(id, book, Limit(id), pos)
             a == ResinSellSide(id, book, Limit(id), pos)
         IN [orders |-> b.orders \o a.orders, text |-> b.text \o a.text]
    ELSE [orders |-> <<>>, text |-> <<>>]

-----------------------------------------------------------------------------
(* The ticks the host delivers *)

Book(buy, sell) == [buy_orders |-> buy, sell_orders |-> sell]
NoOrders == [p \in {} |-> 0]

\* books of RAINFOREST_RESIN: buy quantities positive, sell quantities negative
ResinBooks ==
    { Book(NoOrders, NoOrders),
      Book(NoOrders, 9998 :> -5),
      Book(10002 :> 8, NoOrders),
      Book(NoOrders, 9998 :> -10),
      Book((10000 :> 6) @@ (9998 :> 9), (10000 :> -4) @@ (10002 :> -7)),
      Book((10002 :> 8) @@ (10004 :> 70), (9996 :> -60) @@ (9998 :> -5)) }

OtherBook == Book(2025 :> 20, 2030 :> -20)

\* the symbols of order_depths, in insertion order
Layouts ==
    { <<>>, <<RESIN>>, <<KELP>>, <<SQUID>>, <<RESIN, KELP>>, <<KELP, RESIN>>,
      <<SQUID, RESIN>>, <<RESIN, SQUID, KELP>> }

HasResin(layout) == \E i \in 1..Len(layout) : layout[i] = RESIN

DepthsOf(layout, resinEntry) ==
    [i \in 1..Len(layout) |->
        IF layout[i] = RESIN THEN <<RESIN, resinEntry>> ELSE <<layout[i], <<OtherBook>>>>]

OrderDepthMaps ==
    { DepthsOf(l, <<b>>) : l \in {k \in Layouts : HasResin(k)}, b \in ResinBooks }
    \cup { DepthsOf(l, <<>>) : l \in {k \in Layouts : ~HasResin(k)} }

\* order_depths in which the entry of RAINFOREST_RESIN carries no OrderDepth
MalformedDepthMaps ==
    { DepthsOf(l, <<>>) : l \in {k \in Layouts : HasResin(k)} }

PositionMaps ==
    { [s \in {} |-> 0],
      (RESIN :> 0) @@ (KELP :> 5),
      (RESIN :> 45),
      (RESIN :> 48) @@ (KELP :> -3),
      (RESIN :> 50),
      (RESIN :> -50),
      (RESIN :> 60),
      (RESIN :> -55) }

\* serialized length of the listings, trades and observations of a tick:
\* 13 when all are empty ("[]", "[]", "[]", "[{},{}]")
Bulks == {13, 3600, 3680}

TraderDatas ==
    { <<>>, <<"{", QUOTE, "k", QUOTE, ":", "1", "}">> }

TickOf(od, pm, bulk, td) ==
    [timestamp |-> 0, traderData |-> td, order_depths |-> od, position |-> pm,
     bulk |-> bulk]

Ticks ==
    { TickOf(od, pm, bulk, td) :
        od \in OrderDepthMaps, pm \in PositionMaps, bulk \in Bulks, td \in TraderDatas }

MalformedTicks ==
    { TickOf(od, pm, bulk, td) :
        od \in MalformedDepthMaps, pm \in PositionMaps, bulk \in Bulks, td \in TraderDatas }

\* the host stamps ticks 0, 100, 200, ...
Stamp(tick, n) == [tick EXCEPT !.timestamp = 100 * n]

-----------------------------------------------------------------------------
(* Trader.run *)

trader_data == <<>>

Init ==
    /\ pc = "idle"
    /\ state = TickOf(<<>>, [s \in {} |-> 0], 13, <<>>)
    /\ idx = 1
    /\ result = <<>>
    /\ position = [id \in Products |-> 0]
    /\ logs = <<>>
    /\ emitted = <<>>
    /\ flushArgs = <<>>
    /\ returned = <<>>
    /\ fault = ""
    /\ events = <<>>
    /\ ticks = 0

CurKey == state.order_depths[idx][1]
AtKey == idx <= Len(state.order_depths)

\* the host calls Trader.run(tick): result = {}
Begin(tick) ==
    /\ pc = "idle"
    /\ ticks < MaxTicks
    /\ state' = Stamp(tick, ticks)
    /\ ticks' = ticks + 1
    /\ pc' = "loop"
    /\ idx' = 1
    /\ result' = <<>>
    /\ emitted' = <<>>
    /\ flushArgs' = <<>>
    /\ returned' = <<>>
    /\ fault' = ""
    /\ events' = <<>>
    /\ UNCHANGED <<position, logs>>

RunBegin == \E tick \in Ticks : Begin(tick)

\* one iteration of the for-loop over a key with no registered product
Skip ==
    /\ pc = "loop" /\ AtKey
    /\ ~IsRegistered(CurKey)
    /\ logs' = LoggerPrint(logs, ProcessingMsg(CurKey))
    /\ idx' = idx + 1
    /\ UNCHANGED <<pc, state, result, position, emitted, flushArgs, returned,
                   fault, events, ticks>>

\* one iteration over a registered key, up to the call of its trade()
Dispatch ==
    /\ pc = "loop" /\ AtKey
    /\ IsRegistered(CurKey)
    /\ logs' = LoggerPrint(logs, ProcessingMsg(CurKey))
    /\ events' = Append(events, <<"trade", CurKey>>)
    /\ pc' = "update"
    /\ UNCHANGED <<state, idx, result, position, emitted, flushArgs, returned,
                   fault, ticks>>

\* trade(): self.update(state)
Update ==
    /\ pc = "update"
    /\ position' = [position EXCEPT ![CurKey] = update(position[CurKey], CurKey, state)]
    /\ events' = Append(events, <<"update", CurKey>>)
    /\ pc' = "decide"
    /\ UNCHANGED <<state, idx, result, logs, emitted, flushArgs, returned, fault, ticks>>

\* trade(): the rest of the body, and result[product] = its return value
Decide ==
    /\ pc = "decide"
    /\ TradeFault(CurKey, state) = ""
    /\ LET t == TradeBody(CurKey, state, position[CurKey])
       IN /\ logs' = logs \o t.text
          /\ result' = Append(result, <<CurKey, t.orders>>)
    /\ events' = Append(events, <<"decide", CurKey>>)
    /\ idx' = idx + 1
    /\ pc' = "loop"
    /\ UNCHANGED <<state, position, emitted, flushArgs, returned, fault, ticks>>

FlushCall ==
    <<[state |-> state, orders |-> result, conversions |-> conversions,
       trader_data |-> trader_data, logs |-> logs]>>

\* logger.flush(state, result, conversions, trader_data), print() succeeding
Flush ==
    /\ pc = "loop" /\ ~AtKey
    /\ flushArgs' = FlushCall
    /\ emitted' = <<FlushLine(state, result, conversions, trader_data, logs)>>
    /\ logs' = <<>>
    /\ events' = Append(events, <<"flush", "">>)
    /\ pc' = "flushed"
    /\ UNCHANGED <<state, idx, result, position, returned, fault, ticks>>

\* return result, conversions, trader_data
Return ==
    /\ pc = "flushed"
    /\ returned' = <<[orders |-> result, conversions |-> conversions,
                      trader_data |-> trader_data]>>
    /\ pc' = "idle"
    /\ UNCHANGED <<state, idx, result, position, logs, emitted, flushArgs, fault,
                   events, ticks>>

Next == RunBegin \/ Skip \/ Dispatch \/ Update \/ Decide \/ Flush \/ Return

Spec == Init /\ [][Next]_vars

-----------------------------------------------------------------------------
(* Faults: a tick whose RAINFOREST_RESIN entry carries no OrderDepth, and a *)
(* print() that fails to write to standard output                           *)

RunBeginMalformed == \E tick \in MalformedTicks : Begin(tick)

\* trade() raises: the exception leaves Trader.run, which has no handler
DecideRaises ==
    /\ pc = "decide"
    /\ TradeFault(CurKey, state) # ""
    /\ fault' = TradeFault(CurKey, state)
    /\ events' = Append(events, <<"raise", CurKey>>)
    /\ pc' = "raised"
    /\ UNCHANGED <<state, idx, result, position, logs, emitted, flushArgs, returned,
                   ticks>>

\* logger.flush(...) in which print() raises OSError: line 42 is not reached
FlushRaises ==
    /\ pc = "loop" /\ ~AtKey
    /\ flushArgs' = FlushCall
    /\ fault' = "OSError"
    /\ events' = Append(events, <<"flush", "">>)
    /\ pc' = "raised"
    /\ UNCHANGED <<state, idx, result, position, logs, emitted, returned, ticks>>

NextFault == Next \/ RunBeginMalformed \/ DecideRaises \/ FlushRaises

SpecFault == Init /\ [][NextFault]_vars

-----------------------------------------------------------------------------
(* Direct calls of a policy's operations, outside Trader.run *)

\* product.trade(tick)
CallTrade(id, tick) ==
    /\ pc = "idle"
    /\ ticks < MaxTicks
    /\ ticks' = ticks + 1
    /\ state' = Stamp(tick, ticks)
    /\ position' = [position EXCEPT ![id] = update(position[id], id, state')]
    /\ events' = <<<<"trade", id>>>>
    /\ IF TradeFault(id, state') # ""
       THEN /\ fault' = TradeFault(id, state')
            /\ returned' = <<>>
            /\ logs' = logs
       ELSE LET t == TradeBody(id, state', position'[id])
            IN /\ fault' = ""
               /\ returned' = <<t.orders>>
               /\ logs' = logs \o t.text
    /\ UNCHANGED <<pc, idx, result, emitted, flushArgs>>

\* product.update(tick)
CallUpdate(id, tick) ==
    /\ pc = "idle"
    /\ ticks < MaxTicks
    /\ ticks' = ticks + 1
    /\ state' = Stamp(tick, ticks)
    /\ position' = [position EXCEPT ![id] = update(position[id], id, state')]
    /\ events' = <<<<"update", id>>>>
    /\ fault' = ""
    /\ returned' = <<>>
    /\ UNCHANGED <<pc, idx, result, logs, emitted, flushArgs>>

\* the ticks of the direct calls: the fields the Logger alone reads are fixed
PolicyTicks == { t \in Ticks : t.bulk = 13 /\ t.traderData = <<>> }

PolicyTrade == \E id \in Products, tick \in PolicyTicks : CallTrade(id, tick)
PolicyUpdate == \E id \in Products, tick \in PolicyTicks : CallUpdate(id, tick)

NextPolicy == PolicyTrade \/ PolicyUpdate

SpecPolicy == Init /\ [][NextPolicy]_vars

-----------------------------------------------------------------------------
(* Properties *)

\* the tick's position of a symbol, 0 if absent
PosIn(st, id) == IF id \in DOMAIN st.position THEN st.position[id] ELSE 0

RECURSIVE SumBuys(_)
SumBuys(orders) ==
    IF orders = <<>> THEN 0
    ELSE (IF Head(orders).quantity > 0 THEN Head(orders).quantity ELSE 0)
         + SumBuys(Tail(orders))

RECURSIVE SumSells(_)
SumSells(orders) ==
    IF orders = <<>> THEN 0
    ELSE (IF Head(orders).quantity < 0 THEN Head(orders).quantity ELSE 0)
         + SumSells(Tail(orders))

\* the orders trade() returned for RAINFOREST_RESIN in the running call
ResinReturns == { i \in 1..Len(result) : result[i][1] = RESIN }

\* C1: when the incoming position of RAINFOREST_RESIN is within [-limit, limit],
\* the position plus all returned buy quantities is at most limit and the
\* position plus all returned sell quantities is at least -limit.
C1_WorstCaseWithinLimit ==
    \A i \in ResinReturns :
        LET p == PosIn(state, RESIN)
            orders == result[i][2]
        IN (-ResinLimit <= p /\ p <= ResinLimit) =>
              /\ p + SumBuys(orders) <= ResinLimit
              /\ p + SumSells(orders) >= -ResinLimit

\* a buy clipped to the headroom: position 48, ask 9998 x 10 gives buy 2
C1_Witness ==
    \E i \in ResinReturns :
        /\ PosIn(state, RESIN) = 48
        /\ result[i][2] = <<Order(RESIN, 9998, 2)>>

\* C2: every returned order below fair value is a buy of quantity > 0, every
\* returned order above fair value is a sell of quantity < 0, and no returned
\* order has quantity 0.
C2_NoEmptyOrWrongSideOrder ==
    \A i \in ResinReturns :
        \A j \in 1..Len(result[i][2]) :
            LET o == result[i][2][j]
            IN /\ o.quantity # 0
               /\ o.price < fair_price => o.quantity > 0
               /\ o.price > fair_price => o.quantity < 0

\* C3: the line emitted by Logger.flush is at most max_log_length long.
C3_LineWithinBudget ==
    emitted # <<>> => emitted[1].length <= max_log_length

EndsWithEllipsis(s) ==
    Len(s) >= 3 /\ SubSeq(s, Len(s) - 2, Len(s)) = Ellipsis

\* the three free-text fields of the last flush: <<value, truncated value>>
Truncations ==
    IF emitted = <<>> THEN {}
    ELSE { <<flushArgs[1].state.traderData, emitted[1].traderDataIn>>,
           <<flushArgs[1].trader_data, emitted[1].traderDataOut>>,
           <<flushArgs[1].logs, emitted[1].logs>> }

C5_BufferEmptyAfterFlush ==
    (pc = "flushed" \/ (pc = "raised" /\ fault = "OSError")) => logs = <<>>

\* C6: a fault raised inside a policy does not leave Trader.run.
C6_PolicyFaultIsolated ==
    (\E i \in 1..Len(events) : events[i][1] = "raise") => pc # "raised"

\* C7: trade() called with a tick that has no order book for the policy's own
\* symbol returns the empty sequence and raises nothing; a symbol absent from
\* the position mapping gives position 0.
C7_AbsentBookTolerated ==
    (events # <<>> /\ events[1][1] = "trade") =>
        LET id == events[1][2]
        IN /\ ~HasKey(state, id) => (fault = "" /\ returned = << <<>> >>)
           /\ id \notin DOMAIN state.position => position[id] = 0

RECURSIVE Registered(_)
\* the registered symbols of a sequence of symbols, in order
Registered(keys) ==
    IF keys = <<>> THEN <<>>
    ELSE (IF Head(keys) \in {RESIN, KELP} THEN <<Head(keys)>> ELSE <<>>)
         \o Registered(Tail(keys))

RECURSIVE EventsOf(_, _)
\* the symbols of the events of one kind, in order
EventsOf(kind, evs) ==
    IF evs = <<>> THEN <<>>
    ELSE (IF Head(evs)[1] = kind THEN <<Head(evs)[2]>> ELSE <<>>)
         \o EventsOf(kind, Tail(evs))

\* the keys whose loop iteration has begun
KeysBegun ==
    SubSeq(Keys(state.order_depths), 1, IF pc \in {"update", "decide"} THEN idx ELSE idx - 1)

KeysDone == SubSeq(Keys(state.order_depths), 1, idx - 1)

C8_State ==
    /\ EventsOf("trade", events) = Registered(KeysBegun)
    /\ Keys(result) = Registered(KeysDone)
    /\ pc \in {"flushed", "idle"} /\ ticks > 0 =>
          /\ EventsOf("trade", events) = Registered(Keys(state.order_depths))
          /\ Keys(result) = Registered(Keys(state.order_depths))
    /\ pc = "decide" => TradeFault(CurKey, state) = ""
    /\ fault = ""

C8_SkipStep ==
    (pc = "loop" /\ AtKey /\ CurKey \notin {RESIN, KELP}) =>
        /\ position' = position
        /\ result' = result
        /\ events' = events
        /\ fault' = ""
        /\ pc' = "loop" /\ idx' = idx + 1

\* C8: Trader.run calls trade() exactly once, in key order, for each key of
\* order_depths that is registered and for no other symbol; the keys of the
\* returned orders are exactly those symbols; an unregistered key raises
\* nothing and changes no position, no orders and makes no call.
C8_DispatchExactlyRegistered == [](C8_State) /\ [][C8_SkipStep]_vars

\* a returned run whose order_depths held an unregistered key between
\* registered ones
C8_Witness ==
    /\ pc = "idle" /\ returned # <<>>
    /\ Keys(state.order_depths) = <<RESIN, SQUID, KELP>>
    /\ Keys(result) = <<RESIN, KELP>>

\* C9: the position is refreshed from the tick (0 if absent) before the
\* decision logic of the same call reads it; flush is called once per tick,
\* after every policy call and last; flush receives the triple run returns.
C9_TickOrdering ==
    /\ pc = "decide" =>
          /\ position[CurKey] = PosIn(state, CurKey)
          /\ events[Len(events)] = <<"update", CurKey>>
    /\ \A i \in 1..Len(events) :
          /\ events[i][1] = "decide" =>
                i > 1 /\ events[i - 1] = <<"update", events[i][2]>>
          /\ events[i][1] = "flush" => i = Len(events)
    /\ \A i \in 1..Len(result) : position[result[i][1]] = PosIn(state, result[i][1])
    /\ pc = "flushed" \/ (pc = "idle" /\ ticks > 0) =>
          /\ events # <<>>
          /\ events[Len(events)][1] = "flush"
          /\ Len(EventsOf("flush", events)) = 1
          /\ flushArgs # <<>>
          /\ flushArgs[1].state = state
    /\ pc \in {"loop", "update", "decide"} => EventsOf("flush", events) = <<>>
    /\ returned # <<>> =>
          /\ returned[1].orders = flushArgs[1].orders
          /\ returned[1].conversions = flushArgs[1].conversions
          /\ returned[1].trader_data = flushArgs[1].trader_data

\* the second tick lacks the position of a symbol whose position the first
\* tick had set, and the policy is about to decide
C9_Witness ==
    /\ pc = "decide" /\ ticks = 2
    /\ CurKey = RESIN
    /\ RESIN \notin DOMAIN state.position
    /\ position[KELP] # 0

\* the orders C10 states for a book and a position
ExpectedBuy(book, p) ==
    IF DOMAIN book.sell_orders # {}
          /\ (CHOOSE a \in DOMAIN book.sell_orders :
              \A x \in DOMAIN book.sell_orders : a <= x) < 10000
    THEN LET a == CHOOSE m \in DOMAIN book.sell_orders :
                      \A x \in DOMAIN book.sell_orders : m <= x
             v == -book.sell_orders[a]
         IN <<Order(RESIN, a, IF v <= 50 - p THEN v ELSE 50 - p)>>
    ELSE <<>>

ExpectedSell(book, p) ==
    IF DOMAIN book.buy_orders # {}
       /\ (CHOOSE b \in DOMAIN book.buy_orders :
              \A x \in DOMAIN book.buy_orders : b >= x) > 10000
    THEN LET b == CHOOSE m \in DOMAIN book.buy_orders :
                      \A x \in DOMAIN book.buy_orders : m >= x
             v == book.buy_orders[b]
         IN <<Order(RESIN, b, -(IF v <= 50 + p THEN v ELSE 50 + p))>>
    ELSE <<>>

\* C10: RainforestResin.trade returns the buy at the lowest ask, if that ask
\* is strictly below 10000, for min(-sell_orders[a], 50 - p), followed by the
\* sell at the highest bid, if that bid is strictly above 10000, for
\* -min(buy_orders[b], 50 + p), and nothing else.
C10_ExactOrders ==
    \A i \in ResinReturns :
        LET book == BookOf(EntryOf(state, RESIN))
            p == PosIn(state, RESIN)
        IN /\ result[i][2] = ExpectedBuy(book, p) \o ExpectedSell(book, p)
           /\ Len(result[i][2]) <= 2

\* bid 10002 x 8 at position 45 gives sell 8 @ 10002
C10_Witness ==
    \E i \in ResinReturns :
        /\ PosIn(state, RESIN) = 45
        /\ BookOf(EntryOf(state, RESIN)) = Book(10002 :> 8, NoOrders)
        /\ result[i][2] = <<Order(RESIN, 10002, -8)>>

====
